---------------------------- MODULE Spec2Model ----------------------------
(***************************************************************************)
(* Model of the books.toscrape crawl-and-parse pipeline:                   *)
(*   src/parser_service.py    the gRPC Parsing Service (BookParserService)  *)
(*   src/application/main.py  the asyncio crawler client                    *)
(*                                                                         *)
(* Both programs are single-threaded asyncio programs: code between two    *)
(* awaits runs atomically, so every action below is the code between two   *)
(* suspension points.                                                      *)
(***************************************************************************)
EXTENDS Integers, Sequences, FiniteSets, TLC

(***************************************************************************)
(* Bounds of the model.                                                    *)
(***************************************************************************)
NumUpcs == 3
MaxCalls == 4
MaxRestarts == 1
MaxChain == 5        \* listing pages of a catalogue
MaxEntries == 3      \* listing entries of a catalogue crawled by main()
WalkEntries == 2     \* listing entries of a catalogue walked on its own
NumUrls == 3         \* detail pages of the site
GateSlots == 1       \* asyncio.Semaphore(10) in main(), scaled down
BatchSize == 2       \* batch_size=100 in main(), scaled down
MergeLen == 2        \* records of books.json and of final_items in a merge
RunEntries == 2      \* listing entries of a catalogue crawled by repeated runs

(***************************************************************************)
(* Program constants.                                                      *)
(***************************************************************************)
Retries == 3             \* retries: int = 3
DefaultMaxPages == 200   \* max_pages: int = 200

VARIABLES
    seen_upcs,     \* BookParserService.seen_upcs (in-memory set)
    storage,       \* contents of parsed_books.json, a sequence of dicts
    lockHolder,    \* the call inside "async with self.lock", 0 when free
    lockWaiters,   \* calls suspended in lock.acquire(), FIFO
    rpc,           \* per call: position in ParseBook and what the caller got
    epoch,         \* number of service restarts so far
    sem,           \* free slots of the asyncio.Semaphore shared by all fetches
    walker,        \* frame of collect_all_books_from_catalog
    task,          \* frames of the scrape_book_details_async coroutines
    disp,          \* frame of main() and gather_in_batches
    output         \* contents of books.json

svcVars == <<seen_upcs, storage, lockHolder, lockWaiters, rpc, epoch>>
cliVars == <<sem, walker, task, disp, output>>
vars == <<seen_upcs, storage, lockHolder, lockWaiters, rpc, epoch,
          sem, walker, task, disp, output>>

(***************************************************************************)
(* Raw detail pages.  A page is abstracted to the fields the extractor     *)
(* reads from it; 0 stands for a field that is absent or empty.            *)
(***************************************************************************)
Upcs == 1..NumUpcs
Htmls == [name : {0, 1}, upc : 0..NumUpcs]

Calls == 1..MaxCalls

Min(a, b) == IF a < b THEN a ELSE b

\* parse_product_page raises ValueError when a required field is missing.
ParseFails(html) == html.name = 0 \/ html.upc = 0

\* The dict parse_product_page returns.
parse_product_page(html) == [name |-> html.name, upc |-> html.upc]

\* any(b.get("upc") == upc for b in existing)
AnyUpc(existing, upc) == \E i \in 1..Len(existing) : existing[i].upc = upc

PersistBookUnchecked(existing, parsed) == Append(existing, parsed)

PersistBookAlone(existing, parsed) ==
    IF ~AnyUpc(existing, parsed.upc) THEN <<parsed>> ELSE existing

\* Lines 99-102: reload the file, append unless the upc is there, save.
\* No await separates the load from the save.
PersistBook(existing, parsed) ==
    IF ~AnyUpc(existing, parsed.upc) THEN Append(existing, parsed) ELSE existing

\* "parsed["upc"] in self.seen_upcs" (line 88).
IsDuplicate(upc, seen) == upc \in seen

AddSeenForgotten(seen, upc) == seen

\* self.seen_upcs.add(parsed["upc"]) (line 90).
AddSeen(seen, upc) == seen \cup {upc}

\* load_existing_books(): the list in the file ([] when the file is absent).
load_existing_books == storage

NoHtml == [name |-> 0, upc |-> 0]
\* A call: where it is in ParseBook (pc), its request (html), the status and
\* the book its caller received, the service run that took it (epoch) and
\* whether it had to wait for the lock (waited).
NoRpc == [pc |-> "idle", html |-> NoHtml, status |-> "none", book |-> NoHtml,
          epoch |-> 0, waited |-> FALSE]

RpcIds == DOMAIN rpc

\* What the caller of a finished ParseBook holds.
RpcDone(c, html, status, book) ==
    [pc |-> "done", html |-> html, status |-> status, book |-> book,
     epoch |-> epoch, waited |-> rpc[c].waited]

(***************************************************************************)
(* ParseBook, lines 87-104, from the moment the call owns self.lock.  A    *)
(* duplicate awaits context.abort(ALREADY_EXISTS) with the lock held; a    *)
(* new upc is added, the lock is released and lines 92-104 run without an  *)
(* await up to the return.                                                 *)
(***************************************************************************)
CheckAndStore(c, html) ==
    LET parsed == parse_product_page(html) IN
    IF IsDuplicate(parsed.upc, seen_upcs)
    THEN /\ lockHolder' = c
         /\ rpc' = [rpc EXCEPT ![c] = [pc |-> "aborting", html |-> html,
                                       status |-> "none", book |-> NoHtml,
                                       epoch |-> epoch,
                                       waited |-> rpc[c].waited]]
         /\ UNCHANGED <<seen_upcs, storage>>
    ELSE /\ seen_upcs' = AddSeen(seen_upcs, parsed.upc)
         /\ lockHolder' = 0
         /\ storage' = PersistBook(load_existing_books, parsed)
         /\ rpc' = [rpc EXCEPT ![c] = RpcDone(c, html, "OK", parsed)]

\* ParseBook is entered with the request (lines 82-87).  A page that does
\* not parse is answered INVALID_ARGUMENT by the except clause (line 108).
\* asyncio.Lock.acquire suspends when the lock is held or others wait.
ParseBookEnter(c, html) ==
    /\ rpc[c].pc = "idle"
    /\ UNCHANGED epoch
    /\ IF ParseFails(html)
       THEN /\ rpc' = [rpc EXCEPT
                         ![c] = RpcDone(c, html, "INVALID_ARGUMENT", NoHtml)]
            /\ UNCHANGED <<seen_upcs, storage, lockHolder, lockWaiters>>
       ELSE IF lockHolder # 0 \/ lockWaiters # << >>
       THEN /\ lockWaiters' = Append(lockWaiters, c)
            /\ rpc' = [rpc EXCEPT ![c] = [pc |-> "waitlock", html |-> html,
                                          status |-> "none", book |-> NoHtml,
                                          epoch |-> epoch, waited |-> TRUE]]
            /\ UNCHANGED <<seen_upcs, storage, lockHolder>>
       ELSE /\ CheckAndStore(c, html)
            /\ UNCHANGED lockWaiters

\* The first waiter is woken once the lock is free and enters the section.
ParseBookResume(c) ==
    /\ lockHolder = 0
    /\ lockWaiters # << >>
    /\ c = Head(lockWaiters)
    /\ rpc[c].pc = "waitlock"
    /\ lockWaiters' = Tail(lockWaiters)
    /\ CheckAndStore(c, rpc[c].html)
    /\ UNCHANGED <<epoch, cliVars>>

HeldAfterRaise(holder) == holder

\* "async with self.lock" (line 87) left by an exception: the lock's
\* __aexit__ releases it, as on a normal exit.
ReleaseOnRaise(holder) == 0

\* context.abort(ALREADY_EXISTS) has sent the status and raises; leaving the
\* "async with" releases the lock.  The except clause (line 106) catches the
\* abort and aborts again, which cannot replace the status already sent.
ParseBookAbortSent(c) ==
    /\ rpc[c].pc = "aborting"
    /\ lockHolder = c
    /\ lockHolder' = ReleaseOnRaise(lockHolder)
    /\ rpc' = [rpc EXCEPT
                 ![c] = RpcDone(c, rpc[c].html, "ALREADY_EXISTS", NoHtml)]
    /\ UNCHANGED <<seen_upcs, storage, lockWaiters, epoch, cliVars>>

\* Lines 90-108 when save_books raises (the file cannot be written): the upc
\* is in seen_upcs and the lock released, the file is as it was, and the
\* except clause answers INVALID_ARGUMENT.  save_books is called only for a
\* upc that is neither seen nor in the file.
SaveFails(c, html) ==
    LET parsed == parse_product_page(html) IN
    /\ ~IsDuplicate(parsed.upc, seen_upcs)
    /\ ~AnyUpc(load_existing_books, parsed.upc)
    /\ seen_upcs' = AddSeen(seen_upcs, parsed.upc)
    /\ lockHolder' = 0
    /\ rpc' = [rpc EXCEPT ![c] = RpcDone(c, html, "INVALID_ARGUMENT", NoHtml)]
    /\ UNCHANGED storage

\* ParseBook entered with the lock free, and save_books raises.
ParseBookEnterSaveFails(c, html) ==
    /\ rpc[c].pc = "idle"
    /\ ~ParseFails(html)
    /\ lockHolder = 0 /\ lockWaiters = << >>
    /\ SaveFails(c, html)
    /\ UNCHANGED <<epoch, lockWaiters>>

\* The first waiter enters the section, and save_books raises.
ParseBookResumeSaveFails(c) ==
    /\ lockHolder = 0
    /\ lockWaiters # << >>
    /\ c = Head(lockWaiters)
    /\ rpc[c].pc = "waitlock"
    /\ lockWaiters' = Tail(lockWaiters)
    /\ SaveFails(c, rpc[c].html)
    /\ UNCHANGED <<epoch, cliVars>>

\* The service process is stopped and started again: serve() builds a new
\* BookParserService (lines 78-80, 115); the file stays.  Calls in progress
\* end without an answer of the service.
Restart ==
    /\ epoch < MaxRestarts
    /\ epoch' = epoch + 1
    /\ seen_upcs' = {}
    /\ lockHolder' = 0
    /\ lockWaiters' = << >>
    /\ rpc' = [c \in RpcIds |->
                 IF rpc[c].pc \in {"waitlock", "aborting"}
                 THEN [pc |-> "done", html |-> rpc[c].html,
                       status |-> "UNAVAILABLE", book |-> NoHtml,
                       epoch |-> rpc[c].epoch, waited |-> rpc[c].waited]
                 ELSE rpc[c]]
    /\ UNCHANGED <<storage, cliVars>>

(***************************************************************************)
(* The client, src/application/main.py.                                    *)
(*                                                                         *)
(* The two retry wrappers, fetch_text_with_retry and parse_book_with_retry,*)
(* are the same loop.  Its frame: pc, the loop variable attempt, last_exc, *)
(* and two history fields: calls, the number of times the wrapped          *)
(* operation was invoked, and okAt, the attempt that succeeded.  An        *)
(* exception is the status it carries and the attempt that raised it.      *)
(***************************************************************************)
NoExc == [code |-> "none", attempt |-> -1]

NewRetry(start) ==
    [pc |-> start, attempt |-> 0, last_exc |-> NoExc, calls |-> 1, okAt |-> -1]

NoRetry ==
    [pc |-> "off", attempt |-> 0, last_exc |-> NoExc, calls |-> 0, okAt |-> -1]

MoreAttemptsOneMore(attempt) == attempt < Retries

\* "for attempt in range(retries)": another iteration follows this one.
MoreAttempts(attempt) == attempt + 1 < Retries

RememberFirstExc(last_exc, exc) == IF last_exc = NoExc THEN exc ELSE last_exc

\* "last_exc = exc" (lines 79, 122).
RememberExc(last_exc, exc) == exc

\* The except clause of the loop: remember the exception, sleep and go round
\* again, or leave the loop and "raise last_exc".
RetryFailed(r, code, start) ==
    LET exc == [code |-> code, attempt |-> r.attempt]
        last == RememberExc(r.last_exc, exc)
    IN  IF MoreAttempts(r.attempt)
        THEN [r EXCEPT !.pc = start, !.attempt = @ + 1, !.last_exc = last,
                       !.calls = @ + 1]
        ELSE [r EXCEPT !.pc = "raised", !.last_exc = last]

\* "return await ..." inside the try.
RetrySucceeded(r) == [r EXCEPT !.pc = "returned", !.okAt = r.attempt]

GateAlwaysOpen(value) == TRUE

\* "async with sem" (line 61): a fetch enters while a slot is free.
GateOpen(value) == value > 0

(***************************************************************************)
(* The site.  Listing page k of a chain of L pages links to page k + 1,    *)
(* the last one has no next link (0).  An article of a listing page is its *)
(* title and href, 0 when the tag or attribute is missing.  Detail page u  *)
(* carries UPC u; the last detail page has no UPC row.                     *)
(***************************************************************************)
Urls == 1..NumUrls

Articles ==
    {[title |-> 1, href |-> u] : u \in Urls}
        \cup {[title |-> 0, href |-> 1], [title |-> 1, href |-> 0]}

\* A listing page holds up to two articles.
ArticleSeqs == UNION {[1..n -> Articles] : n \in 0..2}

\* Detail pages with a UPC are interchangeable: a catalogue lists them in the
\* order of their numbers, the first time it lists them.
InOrderOfAppearance(hrefs) ==
    \A i \in 1..Len(hrefs) :
        \A u \in 1..(hrefs[i] - 1) :
            hrefs[i] < NumUrls => \E j \in 1..(i - 1) : hrefs[j] = u

DetailPage(u) == [name |-> 1, upc |-> IF u = NumUrls THEN 0 ELSE u]

ListingPage(k, chain, articles) ==
    [url |-> k, articles |-> articles, next |-> IF k < chain THEN k + 1 ELSE 0]

\* name_tag["title"] / name_tag["href"] raise on a missing attribute
\* (lines 41-44).
ListingRaises(page) ==
    \E i \in 1..Len(page.articles) :
        page.articles[i].title = 0 \/ page.articles[i].href = 0

\* parse_listing_page_with_next: the books of the page, in page order.
ListingBooks(page) ==
    [i \in 1..Len(page.articles) |->
        [name |-> page.articles[i].title, book_url |-> page.articles[i].href]]

LoopAgainOneMore(current_url, pages, max_pages) ==
    current_url # 0 /\ pages <= max_pages

\* "while current_url and pages < max_pages" (line 133).
LoopAgain(current_url, pages, max_pages) ==
    current_url # 0 /\ pages < max_pages

NewWalker(chain, max_pages) ==
    [pc |-> IF LoopAgain(1, 0, max_pages) THEN "walking" ELSE "returned",
     chain |-> chain, max_pages |-> max_pages,
     current_url |-> 1, pages |-> 0, all_books |-> << >>,
     fetch |-> IF LoopAgain(1, 0, max_pages) THEN NewRetry("acquire")
               ELSE NoRetry,
     served |-> << >>]

NoWalker ==
    [pc |-> "gone", chain |-> 0, max_pages |-> 0, current_url |-> 0,
     pages |-> 0, all_books |-> << >>, fetch |-> NoRetry, served |-> << >>]

\* main(): pc, books_from_listing, the batch index i and the results of
\* gather_in_batches, final_items; and three history fields, used where one
\* run is compared with the run before it: whether this run follows a
\* recorded run, the books that run listed and the books.json it left.
NoDisp ==
    [pc |-> "walk", books |-> << >>, i |-> 0, results |-> << >>,
     final_items |-> << >>,
     rerun |-> FALSE, prev_books |-> << >>, prev_output |-> << >>]

(***************************************************************************)
(* collect_all_books_from_catalog (lines 128-140).                         *)
(***************************************************************************)
WalkFailureIgnored(d) == d

\* An exception that leaves collect_all_books_from_catalog is caught neither
\* there nor at line 179: it leaves main() before any coroutine is built and
\* before books.json is read or written.
WalkFailure(d) == [d EXCEPT !.pc = "failed"]

\* fetch_text enters "async with sem" and sends the request.
WalkerAcquire ==
    /\ walker.pc = "walking"
    /\ walker.fetch.pc = "acquire"
    /\ GateOpen(sem)
    /\ sem' = sem - 1
    /\ walker' = [walker EXCEPT !.fetch.pc = "get"]
    /\ UNCHANGED <<svcVars, task, disp, output>>

\* The request fails (raise_for_status, network error, timeout).  When the
\* retries are used up the exception leaves the walk and main().
WalkerFetchFails ==
    /\ walker.pc = "walking"
    /\ walker.fetch.pc = "get"
    /\ sem' = sem + 1
    /\ LET f == RetryFailed(walker.fetch, "ClientError", "acquire") IN
       /\ walker' = [walker EXCEPT
                       !.fetch = f,
                       !.pc = IF f.pc = "raised" THEN "raised" ELSE @]
       /\ disp' = IF f.pc = "raised" THEN WalkFailure(disp) ELSE disp
    /\ UNCHANGED <<svcVars, task, output>>

\* The listing page arrives; lines 135-138 and the loop test.
WalkerFetchOk(maxEntries) ==
    /\ walker.pc = "walking"
    /\ walker.fetch.pc = "get"
    /\ sem' = sem + 1
    /\ \E articles \in ArticleSeqs :
         LET page == ListingPage(walker.current_url, walker.chain, articles)
             f == RetrySucceeded(walker.fetch)
             pages == walker.pages + 1
             hrefs == [i \in 1..Len(walker.all_books) |->
                         walker.all_books[i].book_url]
                      \o [i \in 1..Len(articles) |-> articles[i].href]
         IN  /\ Len(hrefs) <= maxEntries
             /\ InOrderOfAppearance(hrefs)
             /\ IF ListingRaises(page)
                THEN /\ walker' = [walker EXCEPT
                                     !.pc = "raised", !.fetch = f,
                                     !.served = Append(@, page)]
                     /\ disp' = WalkFailure(disp)
                ELSE /\ walker' = [walker EXCEPT
                         !.all_books = @ \o ListingBooks(page),
                         !.current_url = page.next,
                         !.pages = pages,
                         !.served = Append(@, page),
                         !.fetch = IF LoopAgain(page.next, pages,
                                                walker.max_pages)
                                   THEN NewRetry("acquire") ELSE f,
                         !.pc = IF LoopAgain(page.next, pages,
                                             walker.max_pages)
                                THEN "walking" ELSE "returned"]
                     /\ UNCHANGED disp
    /\ UNCHANGED <<svcVars, task, output>>

(***************************************************************************)
(* scrape_book_details_async (lines 86-108), one coroutine per listing     *)
(* entry.  Its result is the dict it returns (kind "book"), None (kind     *)
(* "none") or the exception that left it (kind "exc").  The frame of a     *)
(* retry wrapper exists while the wrapper runs.                            *)
(***************************************************************************)
NoResult == [kind |-> "unset", book |-> NoHtml, exc |-> NoExc]

PendingTask(url) ==
    [pc |-> "pending", url |-> url, fetch |-> NoRetry, html |-> NoHtml,
     parse |-> NoRetry, result |-> NoResult]

\* The coroutine is scheduled: it enters fetch_text_with_retry (line 91).
StartedTask(url) ==
    [PendingTask(url) EXCEPT !.pc = "fetch", !.fetch = NewRetry("acquire")]

Tasks == DOMAIN task

GatherPropagates(d) == [d EXCEPT !.pc = "failed"]

\* gather(..., return_exceptions=True) (line 163): an exception that ends a
\* coroutine becomes its result; gather and main() go on.
GatherOnException(d) == d

TaskAcquire(t) ==
    /\ task[t].pc = "fetch"
    /\ task[t].fetch.pc = "acquire"
    /\ GateOpen(sem)
    /\ sem' = sem - 1
    /\ task' = [task EXCEPT ![t].fetch.pc = "get"]
    /\ UNCHANGED <<svcVars, walker, disp, output>>

\* The fetch fails.  With the retries used up, last_exc is raised at line 91,
\* outside the try, and ends the coroutine.
TaskFetchFails(t) ==
    /\ task[t].pc = "fetch"
    /\ task[t].fetch.pc = "get"
    /\ sem' = sem + 1
    /\ LET f == RetryFailed(task[t].fetch, "ClientError", "acquire") IN
       /\ disp' = IF f.pc = "raised" THEN GatherOnException(disp) ELSE disp
       /\ task' = [task EXCEPT
                     ![t].fetch = IF f.pc = "raised" THEN NoRetry ELSE f,
                     ![t].pc = IF f.pc = "raised" THEN "done" ELSE @,
                     ![t].result = IF f.pc = "raised"
                                   THEN [kind |-> "exc", book |-> NoHtml,
                                         exc |-> f.last_exc]
                                   ELSE @]
    /\ UNCHANGED <<svcVars, walker, output>>

\* The detail page arrives; the coroutine enters parse_book_with_retry.
TaskFetchOk(t) ==
    /\ task[t].pc = "fetch"
    /\ task[t].fetch.pc = "get"
    /\ sem' = sem + 1
    /\ task' = [task EXCEPT
                  ![t].fetch = NoRetry,
                  ![t].html = DetailPage(task[t].url),
                  ![t].pc = "parse",
                  ![t].parse = NewRetry("call")]
    /\ UNCHANGED <<svcVars, walker, disp, output>>

\* parse_book_with_retry ended: the response's book becomes the dict of
\* lines 96-102; an AioRpcError is caught at line 103 and gives None.
TaskAfterParse(tk, r, book) ==
    IF r.pc = "returned"
    THEN [tk EXCEPT !.parse = NoRetry, !.pc = "done", !.html = NoHtml,
                    !.result = [kind |-> "book", book |-> book,
                                exc |-> NoExc]]
    ELSE IF r.pc = "raised"
    THEN [tk EXCEPT !.parse = NoRetry, !.pc = "done", !.html = NoHtml,
                    !.result = [kind |-> "none", book |-> NoHtml,
                                exc |-> NoExc]]
    ELSE [tk EXCEPT !.parse = r]

\* stub.ParseBook(request) reaches the service (line 120).
ParseCall(t) ==
    /\ task[t].pc = "parse"
    /\ task[t].parse.pc = "call"
    /\ ParseBookEnter(t, task[t].html)
    /\ task' = [task EXCEPT ![t].parse.pc = "rpc"]
    /\ UNCHANGED <<sem, walker, disp, output>>

\* stub.ParseBook fails in the channel and never reaches the service.
ParseCallUnavailable(t) ==
    /\ task[t].pc = "parse"
    /\ task[t].parse.pc = "call"
    /\ task' = [task EXCEPT
                  ![t] = TaskAfterParse(@,
                            RetryFailed(task[t].parse, "UNAVAILABLE", "call"),
                            NoHtml)]
    /\ UNCHANGED <<svcVars, sem, walker, disp, output>>

\* The answer of the service arrives: the response, or an AioRpcError with
\* the status of the abort (lines 119-124).
ParseReturn(t) ==
    /\ task[t].pc = "parse"
    /\ task[t].parse.pc = "rpc"
    /\ rpc[t].pc = "done"
    /\ task' = [task EXCEPT
                  ![t] = TaskAfterParse(@,
                            IF rpc[t].status = "OK"
                            THEN RetrySucceeded(task[t].parse)
                            ELSE RetryFailed(task[t].parse, rpc[t].status,
                                             "call"),
                            rpc[t].book)]
    /\ rpc' = [rpc EXCEPT ![t] = NoRpc]
    /\ UNCHANGED <<seen_upcs, storage, lockHolder, lockWaiters, epoch,
                   sem, walker, disp, output>>

\* The service has answered, but the answer does not reach the client (the
\* connection breaks): stub.ParseBook raises AioRpcError UNAVAILABLE.
ParseResponseLost(t) ==
    /\ task[t].pc = "parse"
    /\ task[t].parse.pc = "rpc"
    /\ rpc[t].pc = "done"
    /\ task' = [task EXCEPT
                  ![t] = TaskAfterParse(@,
                            RetryFailed(task[t].parse, "UNAVAILABLE", "call"),
                            NoHtml)]
    /\ rpc' = [rpc EXCEPT ![t] = NoRpc]
    /\ UNCHANGED <<seen_upcs, storage, lockHolder, lockWaiters, epoch,
                   sem, walker, disp, output>>

(***************************************************************************)
(* gather_in_batches (lines 159-165) and main() (lines 168-218).           *)
(***************************************************************************)
BatchOfAllTheRest(i, n) == (i + 1)..n

\* coros[i:i+batch_size], as positions 1..n of coros.
BatchOf(i, n) == (i + 1)..Min(i + BatchSize, n)

GatherSuccessesOnly(i, n) ==
    LET all == [k \in 1..(Min(i + BatchSize, n) - i) |-> task[i + k].result]
    IN  SelectSeq(all, LAMBDA r : r.kind # "exc")

\* asyncio.gather(*batch, return_exceptions=True): the results of the
\* batch, exceptions included, in the order of the awaitables.
GatherResults(i, n) ==
    [k \in 1..(Min(i + BatchSize, n) - i) |-> task[i + k].result]

\* Lines 186-196: the details that are neither None nor an exception.
FinalItems(details_list) ==
    LET kept == SelectSeq(details_list, LAMBDA d : d.kind = "book")
    IN  [k \in 1..Len(kept) |-> kept[k].book]

\* Line 206: the upcs of the stored items.
ExistingUpcs(existing) == {existing[i].upc : i \in 1..Len(existing)}

RECURSIVE NewItemsNoAdd(_, _, _)
NewItemsNoAdd(final_items, existing_upcs, new_items) ==
    IF final_items = << >> THEN new_items
    ELSE LET item == Head(final_items) IN
         IF item.upc \notin existing_upcs
         THEN NewItemsNoAdd(Tail(final_items), existing_upcs,
                            Append(new_items, item))
         ELSE NewItemsNoAdd(Tail(final_items), existing_upcs, new_items)

RECURSIVE NewItems(_, _, _)
\* Lines 208-212: the loop over final_items; an item whose upc is not in
\* existing_upcs is appended to new_items and its upc joins the set.
NewItems(final_items, existing_upcs, new_items) ==
    IF final_items = << >> THEN new_items
    ELSE LET item == Head(final_items) IN
         IF item.upc \notin existing_upcs
         THEN NewItems(Tail(final_items), existing_upcs \cup {item.upc},
                       Append(new_items, item))
         ELSE NewItems(Tail(final_items), existing_upcs, new_items)

CombinedUnchecked(existing, final_items) == existing \o final_items

\* Lines 204-214: combined = existing + new_items.
Combined(existing, final_items) ==
    existing \o NewItems(final_items, ExistingUpcs(existing), << >>)

\* Line 183: one coroutine per listed book; gather() schedules a batch.
LaunchBatch(tk, i, n) ==
    [t \in 1..n |-> IF t \in BatchOf(i, n) THEN StartedTask(tk[t].url)
                    ELSE tk[t]]

\* The walk has returned: main() builds the coroutines and gathers the first
\* batch.  With no listed book it runs to its end at once.
StartDispatch ==
    /\ walker.pc = "returned"
    /\ disp.pc = "walk"
    /\ LET books == walker.all_books
           n == Len(books)
       IN  /\ task' = LaunchBatch([t \in 1..n |-> PendingTask(books[t].book_url)],
                                  0, n)
           /\ rpc' = [t \in 1..n |-> NoRpc]
           /\ IF n = 0
              THEN /\ disp' = [disp EXCEPT !.pc = "done", !.books = books]
                   /\ output' = Combined(output, << >>)
              ELSE /\ disp' = [disp EXCEPT !.pc = "gather", !.books = books]
                   /\ UNCHANGED output
    /\ walker' = NoWalker
    /\ UNCHANGED <<seen_upcs, storage, lockHolder, lockWaiters, epoch, sem>>

\* Every task of the batch is done: gather() returns, the results are
\* appended and the next batch starts; after the last batch main() builds
\* final_items and rewrites books.json, without another await.
BatchDone ==
    /\ disp.pc = "gather"
    /\ LET n == Len(task)
           i == disp.i
           results == disp.results \o GatherResults(i, n)
       IN  /\ \A t \in BatchOf(i, n) : task[t].pc = "done"
           /\ IF i + BatchSize < n
              THEN /\ task' = LaunchBatch(task, i + BatchSize, n)
                   /\ disp' = [disp EXCEPT !.i = i + BatchSize,
                                           !.results = results]
                   /\ UNCHANGED output
              ELSE /\ disp' = [disp EXCEPT
                                 !.pc = "done", !.i = i + BatchSize,
                                 !.results = results,
                                 !.final_items = FinalItems(results)]
                   /\ output' = Combined(output, FinalItems(results))
                   /\ UNCHANGED task
    /\ UNCHANGED <<svcVars, sem, walker>>

(***************************************************************************)
(* The service driven directly by its callers: any page, at any time, as   *)
(* test_client.py does.  Calls are numbered in the order they arrive.      *)
(***************************************************************************)
InitService ==
    /\ seen_upcs = {}
    /\ storage = << >>
    /\ lockHolder = 0
    /\ lockWaiters = << >>
    /\ rpc = [c \in Calls |-> NoRpc]
    /\ epoch = 0
    /\ sem = GateSlots
    /\ walker = NoWalker
    /\ task = << >>
    /\ disp = NoDisp
    /\ output = << >>

NextToArrive(c) == IF c = 1 THEN TRUE ELSE rpc[c - 1].pc # "idle"

\* UPCs are interchangeable: they are numbered in the order in which the
\* service first meets them.
UpcsMet == {rpc[c].html.upc : c \in RpcIds}
NextUpc(upc) == \A u \in 1..(upc - 1) : u \in UpcsMet

CallParseBook ==
    \E c \in RpcIds, html \in Htmls :
        /\ NextToArrive(c)
        /\ NextUpc(html.upc)
        /\ ParseBookEnter(c, html)
        /\ UNCHANGED cliVars

ServiceStep ==
    \/ \E c \in RpcIds : ParseBookResume(c)
    \/ \E c \in RpcIds : ParseBookAbortSent(c)

NextService ==
    \/ CallParseBook
    \/ ServiceStep
    \/ Restart

SpecService == InitService /\ [][NextService]_vars

\* The event loop of the service runs every ready coroutine: an abort that
\* can complete and a waiter that can take the lock do so.
FairSpecService == SpecService /\ WF_vars(ServiceStep)

(***************************************************************************)
(* The service driven directly, on a disk where a write of                 *)
(* parsed_books.json may fail.                                             *)
(***************************************************************************)
CallParseBookSaveFails ==
    \E c \in RpcIds, html \in Htmls :
        /\ NextToArrive(c)
        /\ NextUpc(html.upc)
        /\ ParseBookEnterSaveFails(c, html)
        /\ UNCHANGED cliVars

NextStore ==
    \/ NextService
    \/ CallParseBookSaveFails
    \/ \E c \in RpcIds : ParseBookResumeSaveFails(c)

SpecStore == InitService /\ [][NextStore]_vars

(***************************************************************************)
(* The catalogue walk alone, for any chain and any page ceiling.           *)
(***************************************************************************)
InitWalk ==
    /\ seen_upcs = {}
    /\ storage = << >>
    /\ lockHolder = 0
    /\ lockWaiters = << >>
    /\ rpc = << >>
    /\ epoch = 0
    /\ sem = GateSlots
    /\ \E chain \in 1..MaxChain, max_pages \in 0..(MaxChain + 1) :
         walker = NewWalker(chain, max_pages)
    /\ task = << >>
    /\ disp = NoDisp
    /\ output = << >>

NextWalk ==
    \/ WalkerAcquire
    \/ WalkerFetchFails
    \/ WalkerFetchOk(WalkEntries)

SpecWalk == InitWalk /\ [][NextWalk]_vars

\* The event loop runs every ready coroutine, and a request ends with a
\* response or with an error (ClientTimeout(total=30)).
FairSpecWalk == SpecWalk /\ WF_vars(NextWalk)

(***************************************************************************)
(* One run of main() against a running Parsing Service, which may have     *)
(* accepted books before.                                                  *)
(***************************************************************************)
\* The service is new, or it has accepted the book of detail page 1 in an
\* earlier run.
ServiceBefore ==
    {[seen |-> {}, stored |-> << >>],
     [seen |-> {1}, stored |-> <<parse_product_page(DetailPage(1))>>]}

Init ==
    /\ \E before \in ServiceBefore :
         /\ seen_upcs = before.seen
         /\ storage = before.stored
    /\ lockHolder = 0
    /\ lockWaiters = << >>
    /\ rpc = << >>
    /\ epoch = 0
    /\ sem = GateSlots
    /\ \E chain \in 1..MaxChain : walker = NewWalker(chain, DefaultMaxPages)
    /\ task = << >>
    /\ disp = NoDisp
    /\ output = << >>

Next ==
    \/ WalkerAcquire
    \/ WalkerFetchFails
    \/ WalkerFetchOk(MaxEntries)
    \/ StartDispatch
    \/ \E t \in Tasks : TaskAcquire(t)
    \/ \E t \in Tasks : TaskFetchFails(t)
    \/ \E t \in Tasks : TaskFetchOk(t)
    \/ \E t \in Tasks : ParseCall(t)
    \/ \E t \in Tasks : ParseCallUnavailable(t)
    \/ \E t \in Tasks : ParseReturn(t)
    \/ \E c \in RpcIds : ParseBookResume(c)
    \/ \E c \in RpcIds : ParseBookAbortSent(c)
    \/ BatchDone

Spec == Init /\ [][Next]_vars

(***************************************************************************)
(* One run of main() against a new Parsing Service over a connection that  *)
(* may lose the answer of a ParseBook call.                                *)
(***************************************************************************)
InitLossy == Init /\ seen_upcs = {}

NextLossy ==
    \/ Next
    \/ \E t \in Tasks : ParseResponseLost(t)

SpecLossy == InitLossy /\ [][NextLossy]_vars

(***************************************************************************)
(* main() run twice against the same Parsing Service, which may have       *)
(* accepted books before and may be restarted between the two runs.  The   *)
(* catalogue has one or two listing pages and no request fails.  The       *)
(* second run records what the first one listed and left in books.json.    *)
(***************************************************************************)
InitRuns ==
    /\ \E before \in ServiceBefore :
         /\ seen_upcs = before.seen
         /\ storage = before.stored
    /\ lockHolder = 0
    /\ lockWaiters = << >>
    /\ rpc = << >>
    /\ epoch = 0
    /\ sem = GateSlots
    /\ \E chain \in {1, 2} : walker = NewWalker(chain, DefaultMaxPages)
    /\ task = << >>
    /\ disp = NoDisp
    /\ output = << >>

\* main() has ended and the program is started again (asyncio.run(main())):
\* the service and books.json are as the run left them, d is the new frame
\* of main().
StartMain(d) ==
    /\ disp.pc = "done"
    /\ \E chain \in {1, 2} : walker' = NewWalker(chain, DefaultMaxPages)
    /\ task' = << >>
    /\ rpc' = << >>
    /\ disp' = d
    /\ UNCHANGED <<seen_upcs, storage, lockHolder, lockWaiters, epoch, sem,
                   output>>

\* The service is restarted while no run of main() is in progress.
RestartBetweenRuns ==
    /\ disp.pc = "done"
    /\ Restart

\* The steps of a run of main() in which no request fails.
RunStep ==
    \/ WalkerAcquire
    \/ WalkerFetchOk(RunEntries)
    \/ StartDispatch
    \/ \E t \in Tasks : TaskAcquire(t)
    \/ \E t \in Tasks : TaskFetchOk(t)
    \/ \E t \in Tasks : ParseCall(t)
    \/ \E t \in Tasks : ParseReturn(t)
    \/ \E c \in RpcIds : ParseBookResume(c)
    \/ \E c \in RpcIds : ParseBookAbortSent(c)
    \/ BatchDone

\* The second run of main() starts.
RunSecond ==
    /\ ~disp.rerun
    /\ StartMain([NoDisp EXCEPT !.rerun = TRUE,
                                !.prev_books = disp.books,
                                !.prev_output = output])

\* The service is restarted between the first run and the second.
RestartBeforeSecond ==
    /\ ~disp.rerun
    /\ RestartBetweenRuns

NextTwice ==
    \/ RunStep
    \/ RunSecond
    \/ RestartBeforeSecond

SpecTwice == InitRuns /\ [][NextTwice]_vars

(***************************************************************************)
(* The merge of main() alone (lines 204-215), for any stored books.json and *)
(* any final_items.  A record is a name and a upc; the stored records have *)
(* distinct upcs, as every file main() wrote has.                          *)
(***************************************************************************)
Records == [name : {1, 2}, upc : Upcs]

SeqsUpTo(S, n) == UNION {[1..k -> S] : k \in 0..n}

DistinctUpcs(items) ==
    \A i, j \in 1..Len(items) : i # j => items[i].upc # items[j].upc

InitMerge ==
    /\ seen_upcs = {}
    /\ storage = << >>
    /\ lockHolder = 0
    /\ lockWaiters = << >>
    /\ rpc = << >>
    /\ epoch = 0
    /\ sem = GateSlots
    /\ walker = NoWalker
    /\ task = << >>
    /\ output \in {e \in SeqsUpTo(Records, MergeLen) : DistinctUpcs(e)}
    /\ \E fresh \in SeqsUpTo(Records, MergeLen) :
         disp = [NoDisp EXCEPT !.pc = "merge", !.final_items = fresh]

\* Lines 204-215: load books.json, merge final_items into it, write it.
MergeAndWrite ==
    /\ disp.pc = "merge"
    /\ output' = Combined(output, disp.final_items)
    /\ disp' = [disp EXCEPT !.pc = "done"]
    /\ UNCHANGED <<svcVars, sem, walker, task>>

NextMerge == MergeAndWrite

SpecMerge == InitMerge /\ [][NextMerge]_vars

(***************************************************************************)
(* Properties of the Parsing Service.                                      *)
(***************************************************************************)
Valid(c) == rpc[c].pc # "idle" /\ ~ParseFails(rpc[c].html)

\* The calls carrying upc that one service run (epoch e) has answered.
Answered(e, upc) ==
    {c \in RpcIds : /\ Valid(c)
                    /\ rpc[c].pc = "done"
                    /\ rpc[c].status # "UNAVAILABLE"
                    /\ rpc[c].epoch = e
                    /\ rpc[c].html.upc = upc}

PersistedUnique ==
    \A i, j \in 1..Len(storage) :
        i # j => storage[i].upc # storage[j].upc

\* A UPC stored by one service run was submitted again to the next run and
\* went through the persistence step a second time.
PersistedUniqueWitness ==
    \E a, b \in RpcIds :
        /\ rpc[a].status = "OK" /\ rpc[b].status = "OK"
        /\ rpc[a].epoch < rpc[b].epoch
        /\ rpc[a].book.upc = rpc[b].book.upc
        /\ AnyUpc(storage, rpc[a].book.upc)

\* C3: after a restart the UPCs already in the persisted store count as
\* seen: a call whose UPC an earlier service run stored does not return a
\* Record, it fails with ALREADY_EXISTS.
RestartKeepsKeysSeen ==
    \A a, b \in RpcIds :
        ( /\ rpc[a].status = "OK"
          /\ Valid(b) /\ rpc[b].pc = "done" /\ rpc[b].status # "UNAVAILABLE"
          /\ rpc[a].epoch < rpc[b].epoch
          /\ rpc[a].book.upc = rpc[b].html.upc )
        => rpc[b].status = "ALREADY_EXISTS"

\* C4: no lost update.  Every call that returned a Record has a record with
\* its UPC in the persisted store, in every later state: no reload-append-
\* save of another call removes it.
NoLostUpdate ==
    \A c \in RpcIds :
        rpc[c].status = "OK" => AnyUpc(storage, rpc[c].book.upc)

\* Two calls with different new UPCs were in progress together (both waited
\* for the lock), both returned their Record and both records are stored.
NoLostUpdateWitness ==
    \E a, b \in RpcIds :
        /\ a # b
        /\ rpc[a].status = "OK" /\ rpc[b].status = "OK"
        /\ rpc[a].epoch = rpc[b].epoch
        /\ rpc[a].waited /\ rpc[b].waited
        /\ rpc[a].book.upc # rpc[b].book.upc
        /\ AnyUpc(storage, rpc[a].book.upc) /\ AnyUpc(storage, rpc[b].book.upc)

(***************************************************************************)
(* Properties of the retry wrappers.                                       *)
(***************************************************************************)
\* C5: an ALREADY_EXISTS failure is never retried.  Once parse_book_with_retry
\* has caught an ALREADY_EXISTS error it makes no further attempt: it is
\* neither about to call ParseBook again nor waiting for another answer.
AlreadyExistsNotRetried ==
    \A t \in Tasks :
        task[t].parse.last_exc.code = "ALREADY_EXISTS"
            => task[t].parse.pc \notin {"call", "rpc"}

RetryFrames ==
    {walker.fetch} \cup {task[t].fetch : t \in Tasks}
                   \cup {task[t].parse : t \in Tasks}

LastAttemptExc(code) == [code |-> code, attempt |-> Retries - 1]

\* In every state: no wrapper has invoked its operation more than Retries
\* times; a wrapper that returned did so on the attempt it invoked last; one
\* that raised had used all its attempts and raised the last one's error.
RetryBudgetState ==
    /\ \A r \in RetryFrames : r.calls <= Retries
    /\ walker.fetch.pc = "returned"
         => walker.fetch.okAt = walker.fetch.calls - 1
    /\ walker.fetch.pc = "raised"
         => /\ walker.fetch.calls = Retries
            /\ walker.fetch.last_exc = LastAttemptExc("ClientError")
    /\ \A t \in Tasks :
         task[t].result.kind = "exc"
            => task[t].result.exc = LastAttemptExc("ClientError")

\* In every step of a detail task: a fetch that succeeds hands over the page
\* of that attempt; a fetch that gives up does so after Retries invocations;
\* an answered ParseBook ends the wrapper with that answer's book and is not
\* invoked again; the parse wrapper gives up only after Retries invocations.
RetryBudgetStep ==
    \A t \in Tasks :
        /\ (task[t].pc = "fetch" /\ task'[t].pc = "parse")
             => /\ task[t].fetch.pc = "get"
                /\ task'[t].html = DetailPage(task[t].url)
        /\ (task[t].pc = "fetch" /\ task'[t].pc = "done")
             => /\ task[t].fetch.calls = Retries
                /\ task'[t].result.kind = "exc"
        /\ (task[t].pc = "parse" /\ task[t].parse.pc = "rpc"
              /\ rpc[t].status = "OK" /\ task'[t] # task[t])
             => /\ task'[t].pc = "done"
                /\ task'[t].result.kind = "book"
                /\ task'[t].result.book = rpc[t].book
        /\ (task[t].pc = "parse" /\ task'[t].pc = "done"
              /\ task'[t].result.kind # "book")
             => task[t].parse.calls = Retries

\* C6: retry budget.  A retry wrapper invokes its operation at most Retries
\* (3) times, returns the result of the first successful attempt without
\* invoking it again, and when every attempt fails raises the error of the
\* last attempt.
RetryBudget == []RetryBudgetState /\ [][RetryBudgetStep]_vars

\* One task gave up its fetch after three failures, and the third ParseBook
\* attempt of another has just succeeded after two failed ones.
RetryBudgetWitness ==
    \E t, u \in Tasks :
        /\ task[t].result.kind = "exc"
        /\ task[u].parse.pc = "rpc" /\ task[u].parse.attempt = Retries - 1
        /\ task[u].parse.calls = Retries
        /\ rpc[u].status = "OK"

(***************************************************************************)
(* Properties of the gate, the dispatcher and the walk.                    *)
(***************************************************************************)
InFlight ==
    (IF walker.fetch.pc = "get" THEN 1 ELSE 0)
    + Cardinality({t \in Tasks : task[t].fetch.pc = "get"})

\* C7: concurrency gate.  The fetches in flight, listing and detail pages
\* together, never exceed the slots of the semaphore, however many tasks the
\* batch holds.
GateBound == InFlight <= GateSlots /\ sem = GateSlots - InFlight

\* Every slot is taken and a task of the batch is held back at the gate.
GateBoundWitness ==
    /\ InFlight = GateSlots
    /\ \E t \in Tasks : task[t].fetch.pc = "acquire"
    /\ Cardinality({t \in Tasks : task[t].pc = "fetch"}) > GateSlots

\* C8: positional correspondence.  While batches are gathered the results
\* cover the entries before the batch; at the end there is one result per
\* entry, and the result at position i is the outcome of the task built for
\* entry i: its exception, None, or the book of entry i's detail page.
PositionalCorrespondence ==
    /\ disp.pc = "gather" => Len(disp.results) = disp.i
    /\ disp.pc \in {"gather", "done"} =>
         /\ Len(task) = Len(disp.books)
         /\ \A i \in 1..Len(disp.results) :
              /\ task[i].url = disp.books[i].book_url
              /\ disp.results[i] = task[i].result
              /\ disp.results[i].kind \in {"book", "none", "exc"}
              /\ disp.results[i].kind = "book" =>
                   disp.results[i].book =
                       parse_product_page(DetailPage(disp.books[i].book_url))
    /\ disp.pc = "done" => Len(disp.results) = Len(disp.books)

\* A run over more than one batch ended with an exception, a None and a book
\* at different positions, the exception before the book.
PositionalWitness ==
    /\ disp.pc = "done"
    /\ Len(disp.books) > BatchSize
    /\ \E i, j, k \in 1..Len(disp.results) :
         /\ i < j
         /\ disp.results[i].kind = "exc"
         /\ disp.results[j].kind = "book"
         /\ disp.results[k].kind = "none"

InSeq(x, seq) == \E k \in 1..Len(seq) : seq[k] = x

\* C9: batch isolation.  A task that fails for good never stops the
\* dispatcher; every task of the batches started so far has been started;
\* and at the end every task has run to completion, a failed task has left
\* no record at its own position only, and every book a task produced is in
\* the results at that task's position and among the final items.
BatchIsolation ==
    /\ Tasks # {} => disp.pc \in {"gather", "done"}
    /\ disp.pc = "gather" =>
         \A t \in 1..Min(disp.i + BatchSize, Len(task)) :
             task[t].pc # "pending"
    /\ disp.pc = "done" =>
         /\ Len(disp.results) = Len(task)
         /\ \A t \in Tasks :
              /\ task[t].pc = "done"
              /\ task[t].result.kind = "book" =>
                   /\ disp.results[t].kind = "book"
                   /\ disp.results[t].book = task[t].result.book
                   /\ InSeq(task[t].result.book, disp.final_items)
         /\ Len(disp.final_items) =
              Cardinality({t \in Tasks : task[t].result.kind = "book"})

\* A fetch of the first batch failed for good; a task of the same batch and a
\* task of a later batch still delivered their books.
BatchIsolationWitness ==
    /\ disp.pc = "done"
    /\ \E t, u, v \in Tasks :
         /\ t <= BatchSize /\ u <= BatchSize /\ v > BatchSize
         /\ task[t].result.kind = "exc"
         /\ task[u].result.kind = "book"
         /\ task[v].result.kind = "book"
         /\ InSeq(task[u].result.book, disp.final_items)
         /\ InSeq(task[v].result.book, disp.final_items)

RECURSIVE BooksOf(_)
\* The books of a sequence of listing pages, page after page.
BooksOf(pages) ==
    IF pages = << >> THEN << >>
    ELSE ListingBooks(Head(pages)) \o BooksOf(Tail(pages))

\* In every state of a walk: the pages fetched so far are the first pages of
\* the chain, in chain order, never more than min(L, C) of them; a walk that
\* returns has fetched exactly min(L, C) pages and returns all their books.
WalkSafety ==
    LET limit == Min(walker.chain, walker.max_pages) IN
    /\ walker.pages <= limit
    /\ Len(walker.served) <= limit
    /\ \A k \in 1..Len(walker.served) : walker.served[k].url = k
    /\ walker.pc = "walking" => walker.pages < limit
    /\ walker.pc = "returned" =>
         /\ walker.pages = limit
         /\ Len(walker.served) = limit
         /\ walker.all_books = BooksOf(walker.served)

\* C10: pagination termination.  For a chain of L pages and a page ceiling C
\* the walk ends (it returns, or a fetch or a page fails it), and a walk that
\* returns has fetched exactly the first min(L, C) pages, in chain order, and
\* returns the concatenation of their listing entries.
PaginationTermination ==
    []WalkSafety /\ <>(walker.pc \in {"returned", "raised"})

\* A chain of 5 pages walked under a ceiling of 3: the walk returned after 3
\* pages, one of them fetched on a retry, with the books of those pages.
PaginationWitness ==
    /\ walker.chain = 5 /\ walker.max_pages = 3
    /\ walker.pc = "returned"
    /\ walker.pages = 3
    /\ walker.fetch.okAt > 0
    /\ Len(walker.all_books) >= 2
(***************************************************************************)
(* Properties of the merge and of repeated runs.                           *)
(***************************************************************************)
\* The positions of fresh whose upc is neither in existing nor carried by an
\* earlier record of fresh.
KeptPositions(existing, fresh) ==
    {k \in 1..Len(fresh) :
        /\ \A i \in 1..Len(existing) : existing[i].upc # fresh[k].upc
        /\ \A j \in 1..(k - 1) : fresh[j].upc # fresh[k].upc}

\* merged is existing, record for record, followed by the kept records of
\* fresh in the order of fresh.
IsMergeOf(merged, existing, fresh) ==
    LET kept == KeptPositions(existing, fresh) IN
    /\ Len(merged) = Len(existing) + Cardinality(kept)
    /\ \A i \in 1..Len(existing) : merged[i] = existing[i]
    /\ \A k \in kept :
         merged[Len(existing) + Cardinality({j \in kept : j <= k})] = fresh[k]

\* C11: merge correctness.  The file main() writes is the stored sequence,
\* unchanged and in its order, followed by exactly those records of
\* final_items whose upc is neither stored nor carried by an earlier record
\* of final_items, in the order scraped.
MergeCorrectness ==
    [][disp.pc = "merge" => IsMergeOf(output', output, disp.final_items)]_vars

\* Stored [A, B] merged with fresh [B, C], B scraped under another name:
\* the file holds A, the stored B and C.
MergeWitness ==
    /\ disp.pc = "done"
    /\ disp.final_items = <<[name |-> 2, upc |-> 2], [name |-> 1, upc |-> 3]>>
    /\ output = <<[name |-> 1, upc |-> 1], [name |-> 1, upc |-> 2],
                  [name |-> 1, upc |-> 3]>>
\* C12: uniqueness.  The upcs of the records in books.json are pairwise
\* distinct after every run of main(): a run that finds a file with distinct
\* upcs (the empty or absent file of the first run, the file the run before
\* wrote) writes a file with distinct upcs, whatever final_items holds, be it
\* a book listed twice or a book that a restarted service returned again.
OutputUnique ==
    \A i, j \in 1..Len(output) : i # j => output[i].upc # output[j].upc

\* Both records of final_items carry the upc of the first of the two
\* records books.json held (a book listed twice and returned twice by a
\* service restarted since it was stored): the file still holds two records.
OutputUniqueWitness ==
    /\ disp.pc = "done"
    /\ Len(disp.final_items) = 2
    /\ disp.final_items[1].upc = output[1].upc
    /\ disp.final_items[2].upc = output[1].upc
    /\ Len(output) = 2

\* C13: idempotence.  When a run of main() has found the catalogue the
\* previous run found, books.json after it is what the previous run left,
\* whether the service stayed up or was restarted in between.
Idempotence ==
    ( /\ disp.rerun
      /\ disp.pc = "done"
      /\ disp.books = disp.prev_books )
    => output = disp.prev_output
(***************************************************************************)
(* Properties of failure handling in the client.                           *)
(***************************************************************************)
\* In every state: a walk whose fetch has used up its retries has ended the
\* run; a run that has ended this way has built no detail task and written
\* nothing; and where a detail task has failed, the run goes on.
WalkerFatalState ==
    /\ walker.fetch.pc = "raised" => disp.pc = "failed"
    /\ disp.pc = "failed" =>
         /\ walker.pc = "raised"
         /\ Tasks = {}
         /\ output = << >>
    /\ (\E t \in Tasks : task[t].result.kind \in {"exc", "none"})
         => disp.pc \in {"gather", "done"}

\* A run that has failed does nothing more: no task, no write.
WalkerFatalStep ==
    disp.pc = "failed" => (task' = task /\ output' = output /\ disp' = disp)

\* C14: walker failure is fatal.  When a listing-page fetch has used up its
\* retries during the walk the run of main() ends there: no detail task is
\* dispatched and books.json is not written.  A failure of a detail task
\* never ends the run.
WalkerFatal == []WalkerFatalState /\ [][WalkerFatalStep]_vars

\* The second listing page could not be fetched in three attempts: the run
\* has ended with the books of the first page found and none dispatched.
WalkerFatalWitness ==
    /\ disp.pc = "failed"
    /\ walker.fetch.pc = "raised"
    /\ walker.fetch.calls = Retries
    /\ walker.pages >= 1
    /\ Len(walker.all_books) >= 1
    /\ Tasks = {}
\* C15: an INVALID_ARGUMENT failure is never retried.  Once
\* parse_book_with_retry has caught INVALID_ARGUMENT for an entry it calls
\* ParseBook no more for it, so the service is called once: the wrapper is
\* neither about to call again nor waiting for another answer, and it has
\* invoked ParseBook a single time.
InvalidArgumentNotRetried ==
    \A t \in Tasks :
        task[t].parse.last_exc.code = "INVALID_ARGUMENT"
            => /\ task[t].parse.pc \notin {"call", "rpc"}
               /\ task[t].parse.calls = 1
\* The well-formed entries of a listing page, as books.
WellFormedBooks(page) ==
    {[name |-> page.articles[i].title, book_url |-> page.articles[i].href] :
        i \in {j \in 1..Len(page.articles) :
                  page.articles[j].title # 0 /\ page.articles[j].href # 0}}

\* C16: lenient listing extraction.  For every listing page fetched that
\* holds an entry with a missing name or link: the walk has not failed on
\* it, the other entries of the page are among the books collected, and the
\* walk has moved on past the page.
LenientListing ==
    \A k \in 1..Len(walker.served) :
        ListingRaises(walker.served[k]) =>
            /\ ~(walker.pc = "raised" /\ walker.fetch.pc # "raised")
            /\ \A b \in WellFormedBooks(walker.served[k]) :
                 InSeq(b, walker.all_books)
            /\ walker.pages >= k
(***************************************************************************)
(* Properties of the order of the batches.                                 *)
(***************************************************************************)
\* A task has started and not finished: it is fetching, or in a parse call.
Unfinished(t) == task[t].pc \in {"fetch", "parse"}

\* C17: batches run one at a time.  While the batch at offset i is
\* gathered, every task of the batches before it has completed with a
\* result, no task of a later batch has started (it has neither fetched nor
\* called the service), and so at most batch_size tasks are started and
\* unfinished.
OneBatchAtATime ==
    /\ \A t \in Tasks :
         /\ t <= disp.i => /\ task[t].pc = "done"
                            /\ task[t].result.kind \in {"book", "none", "exc"}
         /\ (disp.pc = "gather" /\ t > disp.i + BatchSize) =>
                /\ task[t].pc = "pending"
                /\ task[t].fetch = NoRetry /\ task[t].parse = NoRetry
                /\ rpc[t] = NoRpc
    /\ Cardinality({t \in Tasks : Unfinished(t)}) <= BatchSize

\* The first batch is complete, one of its tasks having failed, and the
\* task of the second batch has started.
OneBatchAtATimeWitness ==
    /\ disp.pc = "gather"
    /\ disp.i = BatchSize
    /\ Len(task) > BatchSize
    /\ \E t \in 1..BatchSize : task[t].result.kind = "exc"
    /\ \E t \in Tasks : t > BatchSize /\ task[t].pc = "parse"
(***************************************************************************)
(* Properties that join the service and the client.                        *)
(***************************************************************************)
\* C18: end-to-end delivery.  At the end of a run of main() against a
\* service that was new when the run began, books.json holds a record for
\* every upc the service has accepted, also when the answer of the
\* accepting call was lost and the client called again.
EndToEndDelivery ==
    disp.pc = "done" => \A upc \in seen_upcs : AnyUpc(output, upc)
\* The calls carrying upc that are in progress in the service.
InProgress(upc) ==
    {c \in RpcIds : rpc[c].pc \in {"waitlock", "aborting"}
                      /\ rpc[c].html.upc = upc}

\* C19: seen implies persisted.  Within one service lifetime, a upc that is
\* in seen_upcs while no ParseBook call for it is in progress has a record
\* in parsed_books.json, also when the save of the accepting call failed.
SeenImpliesPersisted ==
    \A upc \in seen_upcs : InProgress(upc) = {} => AnyUpc(storage, upc)
(***************************************************************************)
(* Properties of the lock of the service.                                  *)
(***************************************************************************)
\* The calls inside "async with self.lock" at a suspension point.
InSection == {c \in RpcIds : rpc[c].pc = "aborting"}

\* At most one call is inside the section, and it is the holder of the lock;
\* the calls suspended on the lock are the waiters, each once.
LockMutex ==
    /\ Cardinality(InSection) <= 1
    /\ lockHolder # 0 => InSection = {lockHolder}
    /\ lockHolder = 0 => InSection = {}
    /\ Len(lockWaiters) =
         Cardinality({c \in RpcIds : rpc[c].pc = "waitlock"})
    /\ \A k \in 1..Len(lockWaiters) : rpc[lockWaiters[k]].pc = "waitlock"

\* C20: lock release.  The section around the seen-key check-and-insert is
\* held by at most one ParseBook call at a time and is released on every
\* exit, the ALREADY_EXISTS abort raised inside it included, so that every
\* call waiting for the lock eventually enters the section and completes.
LockRelease ==
    /\ []LockMutex
    /\ \A c \in Calls : (rpc[c].pc = "waitlock") ~> (rpc[c].pc = "done")

\* A duplicate was aborted inside the section while another call waited for
\* the lock; the waiting call then entered the section and returned its
\* Record, with no restart of the service.
LockReleaseWitness ==
    \E a, b \in RpcIds :
        /\ rpc[a].pc = "done" /\ rpc[a].status = "ALREADY_EXISTS"
        /\ ~rpc[a].waited
        /\ rpc[b].pc = "done" /\ rpc[b].status = "OK" /\ rpc[b].waited
        /\ a < b
        /\ epoch = 0
        /\ lockHolder = 0 /\ lockWaiters = << >>
=============================================================================
